---------------------------- MODULE Spec2Model ----------------------------
(***************************************************************************)
(* Playback clock, timeline builder and timeline sampler of the Meteor     *)
(* Madness frontend (Scene.tsx, PlaybackControls.tsx, AsteroidSelector.tsx,*)
(* orbitalMechanics.ts).                                                   *)
(*                                                                         *)
(* JavaScript numbers are modelled as exact rationals <<n, d>> (d > 0,     *)
(* lowest terms); floating-point rounding is not modelled.  A nullable     *)
(* value is the empty sequence (null/undefined) or a one-element sequence. *)
(***************************************************************************)
EXTENDS Integers, Sequences, FiniteSets, TLC

VARIABLES
    \* ---- pure-function harness (buildTimeline) ----
    tlPoints,              \* the TrajectoryPoint[] handed to buildTimeline
    tlBuilt,               \* null, or the TimelinePoint[] it returned
    \* ---- pure-function harness (sampleTimeline) ----
    tlTarget,              \* the THREE.Vector3 the calls write their position into
    tlLast,                \* null, or the last call: its progress, what it returned
                           \* and the progress of the call before it
    tlFirst,               \* null, or the first call: its progress and what it returned
    \* ---- pure-function harness (toScaledVector) ----
    scaleInput,            \* the {x, y, z} handed to toScaledVector
    scaleOutput,           \* null, or the vector it returned
    \* ---- pure-function harness (analyzeOrbit) ----
    orbitPoints,           \* the points handed to analyzeOrbit
    orbitMeta,             \* null, or the metadata handed to it
    orbitResult,           \* null before the call, then what it returned
    \* ---- harness (rebuildEarthOrbitFromMeta) ----
    earthOrbitMeta,        \* simulationData.earth_orbit: null, or {a_au, e}
    earthOrbitLine,        \* null before the call, then what it did
    \* ---- harness (pollSimulationReport) ----
    poll,                  \* null, or the call: its options, where it stands, the
                           \* time elapsed since its start and how it ended
    \* ---- store ----
    simulationData,
    simulationMode,
    playbackProgress,
    isPlaybackPlaying,
    isSimulating,
    selectedAsteroidId,
    \* ---- Scene refs ----
    asteroidAnimationRef,
    earthAnimationRef,
    playbackDurationRef,
    playbackProgressRef,
    isPlaybackPlayingRef,
    idleSimulationTimeRef,
    asteroidMeshRef,
    earthMeshRef,
    globalStartTsRef,
    globalEndTsRef,
    globalSpanRef,
    \* ---- requests in flight and observation of the last step ----
    pending,
    lastOp,
    frameView

\* the variables of the pure-function harnesses
harness == <<tlPoints, tlBuilt, tlTarget, tlLast, tlFirst, scaleInput, scaleOutput,
             orbitPoints, orbitMeta, orbitResult, earthOrbitMeta, earthOrbitLine,
             poll>>

\* the variables of the application
app == <<simulationData, simulationMode, playbackProgress, isPlaybackPlaying,
         isSimulating, selectedAsteroidId, asteroidAnimationRef, earthAnimationRef,
         playbackDurationRef, playbackProgressRef, isPlaybackPlayingRef,
         idleSimulationTimeRef, asteroidMeshRef, earthMeshRef, globalStartTsRef,
         globalEndTsRef, globalSpanRef, frameView>>

vars == <<tlPoints, tlBuilt, tlTarget, tlLast, tlFirst, scaleInput, scaleOutput,
          orbitPoints, orbitMeta, orbitResult, earthOrbitMeta, earthOrbitLine, poll,
          simulationData, simulationMode, playbackProgress,
          isPlaybackPlaying, isSimulating, selectedAsteroidId,
          asteroidAnimationRef, earthAnimationRef, playbackDurationRef,
          playbackProgressRef, isPlaybackPlayingRef, idleSimulationTimeRef,
          asteroidMeshRef, earthMeshRef, globalStartTsRef, globalEndTsRef,
          globalSpanRef, pending, lastOp, frameView>>

-----------------------------------------------------------------------------
(* Numbers *)

Null == <<>>
Some(v) == <<v>>

Abs(x) == IF x < 0 THEN -x ELSE x

RECURSIVE Gcd(_, _)
Gcd(a, b) == IF b = 0 THEN a ELSE Gcd(b, a % b)

\* n / d in lowest terms with a positive denominator (d # 0)
Lowest(n, d, g) == <<n \div g, d \div g>>
Rat(n, d) ==
    IF d = 1 THEN <<n, 1>>
    ELSE IF d < 0 THEN Lowest(-n, -d, Gcd(Abs(n), -d))
    ELSE Lowest(n, d, Gcd(Abs(n), d))

Int2Rat(n) == <<n, 1>>
Zero == Int2Rat(0)
One == Int2Rat(1)

\* the denominators are brought to their least common multiple
AddOver(a, b, g) ==
    Rat(a[1] * (b[2] \div g) + b[1] * (a[2] \div g), (a[2] \div g) * b[2])
RAdd(a, b) ==
    IF a[2] = b[2] THEN Rat(a[1] + b[1], a[2])
    ELSE AddOver(a, b, Gcd(a[2], b[2]))
RNeg(a) == <<-a[1], a[2]>>
RSub(a, b) == RAdd(a, RNeg(b))
\* the factors are reduced crosswise before they are multiplied
MulReduced(x, y) == <<x[1] * y[1], x[2] * y[2]>>
RMul(a, b) ==
    IF a[1] = 0 \/ b[1] = 0 THEN Zero
    ELSE MulReduced(Rat(a[1], b[2]), Rat(b[1], a[2]))
RDiv(a, b) == RMul(a, Rat(b[2], b[1]))
LtOver(a, b, g) == a[1] * (b[2] \div g) < b[1] * (a[2] \div g)
RLt(a, b) ==
    IF a[2] = b[2] THEN a[1] < b[1]
    ELSE LtOver(a, b, Gcd(a[2], b[2]))
RLe(a, b) == ~RLt(b, a)
RMin(a, b) == IF RLt(b, a) THEN b ELSE a
RMax(a, b) == IF RLt(a, b) THEN b ELSE a

-----------------------------------------------------------------------------
(* orbitalMechanics.ts *)

SCALE_FACTOR == Rat(1, 149600)
METERS_THRESHOLD == 500000000

Max3(a, b, c) ==
    LET m == IF a < b THEN b ELSE a
    IN  IF m < c THEN c ELSE m

\* toScaledVector taking the threshold itself for meters
toScaledVector_atThreshold(position) ==
    LET maxAbs == Max3(Abs(position[1]), Abs(position[2]), Abs(position[3]))
        assumeMeters == maxAbs >= METERS_THRESHOLD
        factor == IF assumeMeters THEN Rat(1, 1000) ELSE One
    IN  [i \in 1..3 |-> RMul(RMul(Int2Rat(position[i]), factor), SCALE_FACTOR)]

\* position: <<x, y, z>> of integers; result: <<x, y, z>> of rationals
toScaledVector(position) ==
    LET maxAbs == Max3(Abs(position[1]), Abs(position[2]), Abs(position[3]))
        assumeMeters == maxAbs > METERS_THRESHOLD
        factor == IF assumeMeters THEN Rat(1, 1000) ELSE One
    IN  [i \in 1..3 |-> RMul(RMul(Int2Rat(position[i]), factor), SCALE_FACTOR)]

-----------------------------------------------------------------------------
(* Scene.tsx: buildTimeline, sampleTimeline *)

\* point.timestamp ?? index   (index is 0-based in the source)
EffectiveTimestamp(points, i) ==
    IF points[i].timestamp = Null THEN i - 1 ELSE points[i].timestamp[1]

\* the span buildTimeline divides by
TimelineSpan(first, last, count) ==
    IF last # first THEN last - first
    ELSE IF count > 1 THEN count - 1 ELSE 1

\* the entries of the timeline, given the effective timestamps and the span;
\* forceLast says whether the entry of the last index gets t = 1 whatever it
\* normalizes to, as the source does
TimelineEntries(points, timestamps, span, forceLast) ==
    [index \in 1..Len(points) |->
        [t |-> IF forceLast /\ index = Len(points) THEN One
               ELSE IF span # 0
               THEN RMin(RMax(Rat(timestamps[index] - timestamps[1], span), Zero), One)
               ELSE Zero,
         position |-> toScaledVector(points[index].position),
         timestamp |-> timestamps[index]]]

TimelineOf(points, timestamps, forceLast) ==
    TimelineEntries(points, timestamps,
                    TimelineSpan(timestamps[1], timestamps[Len(points)], Len(points)),
                    forceLast)

\* buildTimeline with the last entry left at its normalized value
buildTimeline_lastNotForced(points) ==
    IF Len(points) = 0 THEN <<>>
    ELSE TimelineOf(points,
                    [i \in 1..Len(points) |-> EffectiveTimestamp(points, i)], FALSE)

\* buildTimeline returning the entries in reverse order
buildTimeline_reversed(points) ==
    IF Len(points) = 0 THEN <<>>
    ELSE [index \in 1..Len(points) |->
             TimelineOf(points,
                        [i \in 1..Len(points) |-> EffectiveTimestamp(points, i)],
                        TRUE)[Len(points) + 1 - index]]

buildTimeline(points) ==
    IF Len(points) = 0 THEN <<>>
    ELSE TimelineOf(points,
                    [i \in 1..Len(points) |-> EffectiveTimestamp(points, i)], TRUE)

\* the binary search of sampleTimeline on 0-based indices lo, hi
RECURSIVE LowerBound(_, _, _, _)
LowerBound(timeline, clamped, lo, hi) ==
    IF lo < hi
    THEN IF RLt(timeline[((lo + hi) \div 2) + 1].t, clamped)
         THEN LowerBound(timeline, clamped, ((lo + hi) \div 2) + 1, hi)
         ELSE LowerBound(timeline, clamped, lo, (lo + hi) \div 2)
    ELSE lo

\* the interpolation starting from what the target vector holds
lerpVectors_fromTarget(a, b, alpha) ==
    [i \in 1..3 |-> RAdd(tlTarget[i], RMul(RSub(b[i], tlTarget[i]), alpha))]

lerpVectors(a, b, alpha) ==
    [i \in 1..3 |-> RAdd(a[i], RMul(RSub(b[i], a[i]), alpha))]

Clamp01(x) == RMin(RMax(x, Zero), One)

\* b.t - a.t || 1
SegmentSpan(diff) == IF diff = Zero THEN One ELSE diff

\* the local parameter not divided by the span of the segment
LocalT_unscaled(a, clamped, span) ==
    IF RLt(Zero, span) THEN RSub(clamped, a.t) ELSE Zero

\* span > 0 ? (clamped - a.t) / span : 0
LocalT(a, clamped, span) ==
    IF RLt(Zero, span) THEN RDiv(RSub(clamped, a.t), span) ELSE Zero

Interpolated(a, b, localT) ==
    Some([position |-> lerpVectors(a.position, b.position, localT),
          timestamp |-> RAdd(Int2Rat(a.timestamp),
                             RMul(Int2Rat(b.timestamp - a.timestamp), localT))])

SampleBetween(a, b, clamped) ==
    Interpolated(a, b, LocalT(a, clamped, SegmentSpan(RSub(b.t, a.t))))

\* lowerIndex = Math.max(0, upperIndex - 1)
SampleAtIndex(timeline, upperIndex, clamped) ==
    SampleBetween(timeline[(IF upperIndex - 1 < 0 THEN 0 ELSE upperIndex - 1) + 1],
                  timeline[upperIndex + 1], clamped)

SampleClamped(timeline, clamped) ==
    SampleAtIndex(timeline, LowerBound(timeline, clamped, 0, Len(timeline) - 1), clamped)

\* sampleTimeline refusing a timeline of fewer than 2 entries
sampleTimeline_needsTwo(timeline, progress) ==
    IF Len(timeline) < 2 THEN Null
    ELSE SampleClamped(timeline, Clamp01(progress))

\* null, or [position, timestamp]
sampleTimeline(timeline, progress) ==
    IF Len(timeline) = 0 THEN Null
    ELSE SampleClamped(timeline, Clamp01(progress))

-----------------------------------------------------------------------------
(* Inputs of the model *)

MaxInFlight == 2            \* requests awaiting a response at the same time
MaxIdleDays == 6            \* idle frames stop advancing the idle clock past this

Asteroids == {"a1"}

\* inputs of buildTimeline: up to MaxPoints samples, each with or without a timestamp
MaxPoints == 4
Timestamps == {Null, Some(0), Some(1), Some(2), Some(3)}
Positions == {<<149600, 0, 0>>, <<0, 600000000, 0>>}
TrajectoryPoints == [position : Positions, timestamp : Timestamps]
Trajectories == UNION {[1..n -> TrajectoryPoints] : n \in 0..MaxPoints}
DeltaMs == {0, 7500}                \* frame-to-frame wall-clock deltas
SetupDeltaMs == {0, 1}              \* delta seen by the frame run inside scene setup
SliderValues == {-5, 500, 999, 1200}

\* inputs of sampleTimeline: timelines built from up to MaxSamplePoints samples,
\* sampled below 0, at 0, inside, at 1 and above 1
MaxSamplePoints == 3
SampleTimestamps == {Some(0), Some(1), Some(2)}
SampleTrajectories ==
    UNION {[1..n -> [position : Positions, timestamp : SampleTimestamps]] :
               n \in 0..MaxSamplePoints}
SampleProgress == {Rat(-1, 2), Zero, Rat(1, 2), One, Rat(3, 2)}

Point(x, y, z, ts) == [position |-> <<x, y, z>>, timestamp |-> ts]

AsteroidSamples ==
    << Point(149600, 0, 0, Some(0)), Point(0, 299200, 0, Some(100)),
       Point(-149600, 0, 0, Some(200)) >>
EarthSamples ==
    << Point(0, 149600, 0, Some(50)), Point(149600, 149600, 0, Some(150)),
       Point(448800, 0, 0, Some(250)) >>
\* a trajectory whose timestamps are not in index order
UnorderedSamples ==
    << Point(149600, 0, 0, Some(100)), Point(0, 299200, 0, Some(0)),
       Point(-149600, 0, 0, Some(200)) >>
PreviewSamples ==
    << Point(149600, 0, 0, Null), Point(0, 149600, 0, Null) >>

\* what simulateAsteroid(id, 'preview') resolves to when the body holds a trajectory
PreviewData(id) ==
    [asteroid_id |-> id, asteroid_trajectory |-> PreviewSamples,
     earth_trajectory |-> <<>>]

\* what a full simulation report can hold
FullShapes == {"both", "asteroidOnly", "earthOnly", "empty", "unordered"}
FullData(id, shape) ==
    [asteroid_id |-> id,
     asteroid_trajectory |-> IF shape \in {"both", "asteroidOnly"}
                             THEN AsteroidSamples
                             ELSE IF shape = "unordered" THEN UnorderedSamples
                             ELSE <<>>,
     earth_trajectory |-> IF shape \in {"both", "earthOnly"}
                          THEN EarthSamples ELSE <<>>]

-----------------------------------------------------------------------------
(* Scene.tsx: constants and the values a mesh position can hold *)

ASTEROID_ANIMATION_DURATION_MS == 15000
EARTH_ANIMATION_DURATION_MS == 15000
IDLE_TIME_ACCELERATION == 86400


\* A mesh position: where it was last put, and by what.
\*   "sample"  : sampleTimeline's position at progress `progress`
\*   "base"    : toScaledVector of the first Earth trajectory point
\*   "kepler"  : getEarthPosition(value[1]), kept symbolic
\*   "origin"  : a newly created mesh
Position(kind, value, progress) == [kind |-> kind, value |-> value, progress |-> progress]

\* earthInitialPositionRef (Scene.tsx 467-468): the first point of the fallback
\* orbit, which generateEarthOrbit computes as getEarthPosition computes time 0
EarthInitialPosition == Position("kepler", <<Zero>>, Null)

\* The record the effects and handlers below transform: the store fields and the
\* Scene refs, plus what the frames run during the step observed.
Here ==
    [data |-> simulationData, mode |-> simulationMode,
     progress |-> playbackProgress, playing |-> isPlaybackPlaying,
     simulating |-> isSimulating, selected |-> selectedAsteroidId,
     astAnim |-> asteroidAnimationRef, earthAnim |-> earthAnimationRef,
     duration |-> playbackDurationRef, progressRef |-> playbackProgressRef,
     playingRef |-> isPlaybackPlayingRef, idle |-> idleSimulationTimeRef,
     astMesh |-> asteroidMeshRef, earthMesh |-> earthMeshRef,
     globalStart |-> globalStartTsRef, globalEnd |-> globalEndTsRef,
     globalSpan |-> globalSpanRef,
     view |-> Null]

\* a mesh put where the sample is, or left alone when there is no sample
Placed(mesh, rs, p, shown) ==
    IF rs # Null
    THEN Some([visible |-> shown \/ mesh[1].visible,
               position |-> Position("sample", rs[1].position, Some(p))])
    ELSE mesh

\* Scene.tsx 309-317
AsteroidMeshAt(s, p) ==
    IF s.astAnim # Null /\ s.astMesh # Null
    THEN Placed(s.astMesh, sampleTimeline(s.astAnim[1].timeline, p), p, TRUE)
    ELSE IF s.astMesh # Null
    THEN Some([s.astMesh[1] EXCEPT !.visible = FALSE])
    ELSE s.astMesh

\* the Earth following the asteroid's timeline when it has none of its own
EarthMeshAt_followsAsteroid(s, p) ==
    IF s.earthAnim # Null /\ s.earthMesh # Null
    THEN Placed(s.earthMesh, sampleTimeline(s.earthAnim[1].timeline, p), p, FALSE)
    ELSE IF s.earthMesh # Null /\ s.astAnim # Null
    THEN Placed(s.earthMesh, sampleTimeline(s.astAnim[1].timeline, p), p, FALSE)
    ELSE s.earthMesh

\* Scene.tsx 318-327
EarthMeshAt(s, p) ==
    IF s.earthAnim # Null /\ s.earthMesh # Null
    THEN Placed(s.earthMesh, sampleTimeline(s.earthAnim[1].timeline, p), p, FALSE)
    ELSE IF s.earthMesh # Null
    THEN Some([s.earthMesh[1] EXCEPT !.position = EarthInitialPosition])
    ELSE s.earthMesh

\* both bodies put at the one progress value p; the Earth at pEarth
ApplyAt(s, p, pEarth) ==
    [s EXCEPT !.astMesh = AsteroidMeshAt(s, p), !.earthMesh = EarthMeshAt(s, pEarth)]

\* applyPlaybackProgressValue sampling the Earth where the playback started
applyPlaybackProgressValue_earthLags(s, progress) ==
    ApplyAt(s, Clamp01(progress), Zero)

applyPlaybackProgressValue(s, progress) ==
    ApplyAt(s, Clamp01(progress), Clamp01(progress))

\* What a frame sees when it starts: is each timeline it reads built from the
\* simulation the store holds, and are its copies of the playback state the store's.
FrameView(s) ==
    Some([asteroidCurrent |->
              s.astAnim = Null
              \/ (/\ s.data # Null
                  /\ s.astAnim[1].timeline = buildTimeline(s.data[1].asteroid_trajectory)),
          earthCurrent |->
              s.earthAnim = Null
              \/ (/\ s.data # Null
                  /\ s.earthAnim[1].timeline = buildTimeline(s.data[1].earth_trajectory)),
          loaded |-> s.astAnim # Null \/ s.earthAnim # Null,
          synced |-> s.progressRef = s.progress /\ s.playingRef = s.playing])

\* Scene.tsx 580-590: the new progress is stored; at 1 it is rewound
AdvanceTo(s, nextProgress) ==
    IF RLe(One, nextProgress)
    THEN [s EXCEPT !.progressRef = Zero, !.progress = Zero]
    ELSE IF nextProgress # s.progressRef
    THEN [s EXCEPT !.progressRef = nextProgress, !.progress = nextProgress]
    ELSE s

\* Scene.tsx 578-580
AdvanceBy(s, increment) ==
    IF RLt(Zero, increment)
    THEN AdvanceTo(s, RMin(RAdd(s.progressRef, increment), One))
    ELSE s

\* playbackDurationRef.current || ASTEROID_ANIMATION_DURATION_MS
DurationOf(s) == IF s.duration # 0 THEN s.duration ELSE ASTEROID_ANIMATION_DURATION_MS

\* the playback part of animate stopping at the end instead of rewinding
AdvancePlayback_stopsAtEnd(s, deltaMs) ==
    IF s.playingRef /\ DurationOf(s) > 0 /\ deltaMs > 0
    THEN IF RLe(One, RAdd(s.progressRef, Rat(deltaMs, DurationOf(s))))
         THEN [s EXCEPT !.progressRef = One, !.progress = One,
                        !.playingRef = FALSE, !.playing = FALSE]
         ELSE AdvanceTo(s, RAdd(s.progressRef, Rat(deltaMs, DurationOf(s))))
    ELSE s

\* the playback part of animate advancing whether the clock plays or not
AdvancePlayback_whilePaused(s, deltaMs) ==
    IF DurationOf(s) > 0
    THEN AdvanceBy(s, Rat(deltaMs, DurationOf(s)))
    ELSE s

\* the playback part of animate (Scene.tsx 575-593)
AdvancePlayback(s, deltaMs) ==
    IF s.playingRef /\ DurationOf(s) > 0
    THEN AdvanceBy(s, Rat(deltaMs, DurationOf(s)))
    ELSE s

\* the idle clock advancing while the Earth stays where it is
IdleDrift_clockOnly(s, idle) == [s EXCEPT !.idle = idle]

\* Scene.tsx 598-612: the Earth drifts along its analytic orbit
IdleDrift(s, idle) ==
    [s EXCEPT !.idle = idle,
              !.earthMesh = Some([visible |-> TRUE,
                                  position |-> Position("kepler", <<idle>>, Null)])]

\* Scene.tsx 595-613
PlaceBodies(s, deltaMs) ==
    IF s.earthAnim # Null \/ s.astAnim # Null
    THEN applyPlaybackProgressValue(s, s.progressRef)
    ELSE IF s.earthMesh # Null /\ RLe(Zero, s.idle)
    THEN IdleDrift(s, RAdd(s.idle, RMul(Rat(deltaMs, 1000),
                                        Int2Rat(IDLE_TIME_ACCELERATION))))
    ELSE s

\* one frame of the render loop
animate(s, deltaMs) ==
    PlaceBodies(AdvancePlayback([s EXCEPT !.view = FrameView(s)], deltaMs), deltaMs)

-----------------------------------------------------------------------------
(* Scene.tsx: the effects, in the order the component declares them *)

\* useEffect on playbackProgress (330-335); `rendered` is the rendered store value
ProgressSynced(s) ==
    IF s.astAnim # Null \/ s.earthAnim # Null
    THEN applyPlaybackProgressValue(s, s.progressRef)
    ELSE s

\* the effect on playbackProgress not copying the store's value into the ref
ProgressEffect_noCopy(s, rendered) == ProgressSynced(s)

ProgressEffect(s, rendered) == ProgressSynced([s EXCEPT !.progressRef = rendered])

\* useEffect on isPlaybackPlaying (337-339)
PlayingEffect(s, rendered) == [s EXCEPT !.playingRef = rendered]

\* the cleanup of the scene effect leaving the animation refs as they are
SceneCleanup_keepsTimelines(s) ==
    [s EXCEPT !.astMesh = Null, !.earthMesh = Null]

\* cleanup of the scene effect (728-803), run when simulationData changed
SceneCleanup(s) ==
    [s EXCEPT !.astMesh = Null, !.earthMesh = Null,
              !.astAnim = Null, !.earthAnim = Null]

\* body of the scene effect (350-726): builds the scene and runs the first frame
SceneSetup(s, deltaMs) ==
    animate([s EXCEPT
               !.earthMesh = Some([visible |-> TRUE,
                                   position |-> EarthInitialPosition]),
               !.idle = Zero],
            deltaMs)

\* Scene.tsx 886-889
PlaybackPaused(s) ==
    IF s.playingRef
    THEN [s EXCEPT !.playingRef = FALSE, !.playing = FALSE]
    ELSE s

\* Scene.tsx 882-885
PlaybackRewound(s) ==
    IF s.progressRef # Zero
    THEN [s EXCEPT !.progressRef = Zero, !.progress = Zero]
    ELSE s

resetPlayback(s) == PlaybackPaused(PlaybackRewound(s))

SetVisible(mesh, v) == IF mesh # Null THEN Some([mesh[1] EXCEPT !.visible = v]) ELSE mesh

\* Scene.tsx 905-940: the scene without a simulation
Cleared(s) ==
    [s EXCEPT
       !.astAnim = Null, !.earthAnim = Null,
       !.duration = ASTEROID_ANIMATION_DURATION_MS,
       !.astMesh = SetVisible(s.astMesh, FALSE),
       !.earthMesh = IF s.earthMesh # Null
                     THEN Some([visible |-> TRUE,
                                position |-> EarthInitialPosition])
                     ELSE s.earthMesh,
       !.idle = IF RLt(s.idle, Zero) THEN Zero ELSE s.idle]

\* the cleared path leaving the playback state as it is
ClearedPath_keepsPlayback(s) == Cleared(s)

\* simulationData effect, `!simulationData` path (905-944)
ClearedPath(s) == resetPlayback(Cleared(s))

\* Scene.tsx 1175-1229: a preview shows orbits only
Previewed(s) ==
    [s EXCEPT
       !.astAnim = Null, !.earthAnim = Null,
       !.duration = ASTEROID_ANIMATION_DURATION_MS,
       !.astMesh = SetVisible(s.astMesh, FALSE),
       !.earthMesh = SetVisible(s.earthMesh, FALSE)]

\* the preview path leaving the playback state as it is
PreviewPath_keepsPlayback(s) == [Previewed(s) EXCEPT !.idle = Int2Rat(-1)]

\* simulationData effect, preview path (1175-1229)
PreviewPath(s) == [resetPlayback(Previewed(s)) EXCEPT !.idle = Int2Rat(-1)]

MinOf(S) == CHOOSE x \in S : \A y \in S : x <= y
MaxOf(S) == CHOOSE x \in S : \A y \in S : y <= x

\* Scene.tsx 1289-1323
AsteroidInstalled(s, asteroidTimeline) ==
    IF Len(asteroidTimeline) > 0
    THEN [s EXCEPT
            !.astMesh = IF s.astMesh = Null
                        THEN Some([visible |-> TRUE,
                                   position |-> Position("origin", Null, Null)])
                        ELSE SetVisible(s.astMesh, TRUE),
            !.astAnim = Some([timeline |-> asteroidTimeline,
                              durationMs |-> ASTEROID_ANIMATION_DURATION_MS])]
    ELSE [s EXCEPT !.astAnim = Null, !.astMesh = SetVisible(s.astMesh, FALSE)]

\* Scene.tsx 892-903
updateEarthBasePosition(s, data) ==
    IF s.earthMesh = Null THEN s
    ELSE IF Len(data.earth_trajectory) > 0
    THEN [s EXCEPT !.earthMesh = Some([s.earthMesh[1] EXCEPT !.position =
             Position("base", toScaledVector(data.earth_trajectory[1].position), Null)])]
    ELSE [s EXCEPT !.earthMesh = Some([s.earthMesh[1] EXCEPT !.position =
             EarthInitialPosition])]

\* Scene.tsx 1325-1335
EarthInstalled(s, earthTimeline, data) ==
    IF Len(earthTimeline) > 0
    THEN [s EXCEPT !.earthAnim = Some([timeline |-> earthTimeline,
                                       durationMs |-> EARTH_ANIMATION_DURATION_MS])]
    ELSE updateEarthBasePosition([s EXCEPT !.earthAnim = Null], data)

\* the first (which = "first") or last timestamps of the loaded timelines
TimelineEnds(s, which) ==
    (IF s.astAnim # Null
     THEN {s.astAnim[1].timeline[IF which = "first" THEN 1
                                 ELSE Len(s.astAnim[1].timeline)].timestamp}
     ELSE {})
    \cup
    (IF s.earthAnim # Null
     THEN {s.earthAnim[1].timeline[IF which = "first" THEN 1
                                   ELSE Len(s.earthAnim[1].timeline)].timestamp}
     ELSE {})

\* Scene.tsx 1348-1354
GlobalSpanSet(s, gStart, gEnd) ==
    [s EXCEPT !.globalStart = Some(gStart), !.globalEnd = Some(gEnd),
              !.globalSpan = IF gEnd - gStart > 1 THEN gEnd - gStart ELSE 1]

\* the global span computed by the first load only
GlobalSpanComputed_once(s) ==
    IF s.globalStart = Null
       /\ TimelineEnds(s, "first") # {} /\ TimelineEnds(s, "last") # {}
    THEN GlobalSpanSet(s, MinOf(TimelineEnds(s, "first")), MaxOf(TimelineEnds(s, "last")))
    ELSE s

\* the global span taken from the asteroid timeline alone
GlobalSpanComputed_asteroidOnly(s) ==
    IF s.astAnim # Null
    THEN GlobalSpanSet(s, s.astAnim[1].timeline[1].timestamp,
                       s.astAnim[1].timeline[Len(s.astAnim[1].timeline)].timestamp)
    ELSE s

\* Scene.tsx 1337-1354
GlobalSpanComputed(s) ==
    IF TimelineEnds(s, "first") # {} /\ TimelineEnds(s, "last") # {}
    THEN GlobalSpanSet(s, MinOf(TimelineEnds(s, "first")), MaxOf(TimelineEnds(s, "last")))
    ELSE s

\* Scene.tsx 1358-1376
EarthShownAndProgressClamped(s) ==
    IF RLt(One, s.progressRef)
    THEN [s EXCEPT !.earthMesh = SetVisible(s.earthMesh, TRUE),
                   !.duration = ASTEROID_ANIMATION_DURATION_MS,
                   !.progressRef = One, !.progress = One]
    ELSE [s EXCEPT !.earthMesh = SetVisible(s.earthMesh, TRUE),
                   !.duration = ASTEROID_ANIMATION_DURATION_MS]

\* Scene.tsx 1378
Applied(s) == applyPlaybackProgressValue(s, s.progressRef)

\* simulationData effect, timeline installation (1242-1379)
FullPath(s, data) ==
    Applied(EarthShownAndProgressClamped(GlobalSpanComputed(
        EarthInstalled(AsteroidInstalled(s, buildTimeline(data.asteroid_trajectory)),
                       buildTimeline(data.earth_trajectory), data))))

\* useEffect on [simulationData, simulationMode] (806-1380); data and mode are the
\* rendered store values
SimulationDataEffect(s, data, mode) ==
    IF data = Null THEN ClearedPath(s)
    ELSE IF mode = "preview" THEN PreviewPath(s)
    ELSE FullPath(s, data[1])

\* an effect runs when one of its dependencies changed
CleanupRun(s, dataChanged) == IF dataChanged THEN SceneCleanup(s) ELSE s
ProgressRun(s, changed, rendered) == IF changed THEN ProgressEffect(s, rendered) ELSE s
PlayingRun(s, changed, rendered) == IF changed THEN PlayingEffect(s, rendered) ELSE s
SetupRun(s, dataChanged, deltaMs) == IF dataChanged THEN SceneSetup(s, deltaMs) ELSE s
DataRun(s, changed, data, mode) == IF changed THEN SimulationDataEffect(s, data, mode) ELSE s

\* the effects of the render of s, where `old` is what the previous render showed:
\* the cleanups, then the effects in declaration order
FirstPass(old, s, dataChanged, deltaMs) ==
    DataRun(
        SetupRun(
            PlayingRun(
                ProgressRun(CleanupRun(s, dataChanged),
                            s.progress # old.progress, s.progress),
                s.playing # old.playing, s.playing),
            dataChanged, deltaMs),
        dataChanged \/ s.mode # old.mode, s.data, s.mode)

\* store writes made by the effects are rendered by a second pass
SecondPass(s, c) ==
    PlayingRun(ProgressRun(c, c.progress # s.progress, c.progress),
               c.playing # s.playing, c.playing)

\* The render that follows store writes: `old` is the state the previous render
\* showed, `s` the state after the writes.
Commit(old, s, dataChanged, deltaMs) ==
    SecondPass(s, FirstPass(old, s, dataChanged, deltaMs))

\* the first render of the component: every effect runs, nothing is cleaned up
Mount(s, deltaMs) ==
    SecondPass(s,
        SimulationDataEffect(
            SceneSetup(PlayingEffect(ProgressEffect(s, s.progress), s.playing), deltaMs),
            s.data, s.mode))

\* store defaults and useRef initial values (Scene.tsx 200-250)
Constructed ==
    [data |-> Null, mode |-> "none", progress |-> Zero, playing |-> FALSE,
     simulating |-> FALSE, selected |-> Null,
     astAnim |-> Null, earthAnim |-> Null,
     duration |-> ASTEROID_ANIMATION_DURATION_MS, progressRef |-> Zero,
     playingRef |-> FALSE, idle |-> Zero, astMesh |-> Null, earthMesh |-> Null,
     globalStart |-> Null, globalEnd |-> Null, globalSpan |-> 1,
     view |-> Null]

\* the state is the record r, reached by operation op
Is(r, op) ==
    /\ simulationData = r.data
    /\ simulationMode = r.mode
    /\ playbackProgress = r.progress
    /\ isPlaybackPlaying = r.playing
    /\ isSimulating = r.simulating
    /\ selectedAsteroidId = r.selected
    /\ asteroidAnimationRef = r.astAnim
    /\ earthAnimationRef = r.earthAnim
    /\ playbackDurationRef = r.duration
    /\ playbackProgressRef = r.progressRef
    /\ isPlaybackPlayingRef = r.playingRef
    /\ idleSimulationTimeRef = r.idle
    /\ asteroidMeshRef = r.astMesh
    /\ earthMeshRef = r.earthMesh
    /\ globalStartTsRef = r.globalStart
    /\ globalEndTsRef = r.globalEnd
    /\ globalSpanRef = r.globalSpan
    /\ frameView = r.view
    /\ lastOp = [op |-> op, deltaMs |-> 0]

\* the next state is the record r, reached by operation op; deltaMs is the time
\* elapsed that a frame was called back with (0 for the other operations)
Reached(r, op, deltaMs) ==
    /\ simulationData' = r.data
    /\ simulationMode' = r.mode
    /\ playbackProgress' = r.progress
    /\ isPlaybackPlaying' = r.playing
    /\ isSimulating' = r.simulating
    /\ selectedAsteroidId' = r.selected
    /\ asteroidAnimationRef' = r.astAnim
    /\ earthAnimationRef' = r.earthAnim
    /\ playbackDurationRef' = r.duration
    /\ playbackProgressRef' = r.progressRef
    /\ isPlaybackPlayingRef' = r.playingRef
    /\ idleSimulationTimeRef' = r.idle
    /\ asteroidMeshRef' = r.astMesh
    /\ earthMeshRef' = r.earthMesh
    /\ globalStartTsRef' = r.globalStart
    /\ globalEndTsRef' = r.globalEnd
    /\ globalSpanRef' = r.globalSpan
    /\ frameView' = r.view
    /\ lastOp' = [op |-> op, deltaMs |-> deltaMs]

Becomes(r, op) == Reached(r, op, 0)

-----------------------------------------------------------------------------
(* The application: frames, playback controls, selector handlers, responses *)

\* pending[<<kind, id>>]: how many requests of that kind for that asteroid await
\* their response
RequestKinds == {"preview", "fullStart", "fullPoll"}

RECURSIVE SumOver(_, _)
SumOver(f, S) ==
    IF S = {} THEN 0
    ELSE LET x == CHOOSE y \in S : TRUE IN f[x] + SumOver(f, S \ {x})

InFlight == SumOver(pending, RequestKinds \X Asteroids)
Sent(kind, id) == [pending EXCEPT ![<<kind, id>>] = @ + 1]
Answered(kind, id) == [pending EXCEPT ![<<kind, id>>] = @ - 1]

\* toScaledVector has not been called on its own, nor has analyzeOrbit
NotScaled == scaleInput = <<0, 0, 0>> /\ scaleOutput = Null
NotAnalyzed == orbitPoints = <<>> /\ orbitMeta = Null /\ orbitResult = Null
\* nor has rebuildEarthOrbitFromMeta
NotRebuilt == earthOrbitMeta = Null /\ earthOrbitLine = Null
\* nor pollSimulationReport
NotPolled == poll = Null

\* Scene.tsx 23-24: the vector the calls of sampleTimeline write into is new, and
\* no call has been made
NoCalls ==
    /\ tlTarget = <<Zero, Zero, Zero>>
    /\ tlLast = Null
    /\ tlFirst = Null

Init ==
    /\ tlPoints = <<>>
    /\ tlBuilt = Null
    /\ NoCalls
    /\ NotScaled
    /\ NotAnalyzed
    /\ NotRebuilt
    /\ NotPolled
    /\ pending = [q \in RequestKinds \X Asteroids |-> 0]
    /\ \E d \in SetupDeltaMs : Is(Mount(Constructed, d), "mount")

\* the idle clock is unbounded in the source; frames stop advancing it at the bound
IdleClockBelowBound ==
    \/ asteroidAnimationRef # Null
    \/ earthAnimationRef # Null
    \/ RLt(idleSimulationTimeRef, Int2Rat(MaxIdleDays * IDLE_TIME_ACCELERATION))

\* requestAnimationFrame callback (Scene.tsx 565-723) and the render of its writes
Tick(deltaMs) ==
    /\ deltaMs > 0 => IdleClockBelowBound
    /\ Reached(Commit(Here, animate(Here, deltaMs), FALSE, 0), "animate", deltaMs)
    /\ UNCHANGED <<harness, pending>>

Frame == \E deltaMs \in DeltaMs : Tick(deltaMs)

\* PlaybackControls.tsx 29
hasFullSimulation ==
    /\ simulationMode = "full"
    /\ simulationData # Null
    /\ Len(simulationData[1].asteroid_trajectory) > 0

\* the change handler storing the slider value as it comes
handleChange_unclamped(value) == [Here EXCEPT !.progress = Rat(value, 1000)]

\* PlaybackControls.tsx 69-72
handleChange(value) ==
    [Here EXCEPT !.progress =
        Rat(IF value < 0 THEN 0 ELSE IF value > 1000 THEN 1000 ELSE value, 1000)]

SliderChange ==
    \E value \in SliderValues :
        /\ hasFullSimulation
        /\ Becomes(Commit(Here, handleChange(value), FALSE, 0), "handleChange")
        /\ UNCHANGED <<harness, pending>>

\* PlaybackControls.tsx 105-106: onMouseDown / onTouchStart of the range input
SliderPointerDown ==
    /\ hasFullSimulation
    /\ Becomes(Commit(Here, [Here EXCEPT !.playing = FALSE], FALSE, 0), "pointerDown")
    /\ UNCHANGED <<harness, pending>>

\* PlaybackControls.tsx 74-77
handleRestart == [Here EXCEPT !.progress = Zero, !.playing = TRUE]

Restart ==
    /\ hasFullSimulation
    /\ Becomes(Commit(Here, handleRestart, FALSE, 0), "handleRestart")
    /\ UNCHANGED <<harness, pending>>

\* PlaybackControls.tsx 79-85
handlePlayPause ==
    IF ~isPlaybackPlaying /\ RLe(Rat(999, 1000), playbackProgress)
    THEN [Here EXCEPT !.progress = Zero, !.playing = TRUE]
    ELSE [Here EXCEPT !.playing = ~isPlaybackPlaying]

PlayPause ==
    /\ hasFullSimulation
    /\ Becomes(Commit(Here, handlePlayPause, FALSE, 0), "handlePlayPause")
    /\ UNCHANGED <<harness, pending>>

\* Scene.tsx 1541-1545 and 1586-1590: the EXIT buttons
exitSimulation == [Here EXCEPT !.data = Null, !.mode = "none"]

Exit ==
    /\ simulationMode \in {"full", "preview"}
    /\ \E d \in (IF simulationData # Null THEN SetupDeltaMs ELSE {0}) :
         Becomes(Commit(Here, exitSimulation, simulationData # Null, d), "exit")
    /\ UNCHANGED <<harness, pending>>

\* AsteroidSelector.tsx 355-366: handleAsteroidSelect with an empty id
deselect ==
    [Here EXCEPT !.selected = Null, !.data = Null, !.mode = "none",
                 !.progress = Zero, !.playing = FALSE]

Deselect ==
    /\ \E d \in (IF simulationData # Null THEN SetupDeltaMs ELSE {0}) :
         Becomes(Commit(Here, deselect, simulationData # Null, d), "deselect")
    /\ UNCHANGED <<harness, pending>>

\* AsteroidSelector.tsx 368-405: handleAsteroidSelect up to the await
selectAsteroid(id) ==
    [Here EXCEPT !.data = Null, !.progress = Zero, !.playing = FALSE,
                 !.selected = Some(id), !.simulating = TRUE, !.mode = "preview"]

Select ==
    \E id \in Asteroids :
        /\ InFlight < MaxInFlight
        /\ \E d \in (IF simulationData # Null THEN SetupDeltaMs ELSE {0}) :
             Becomes(Commit(Here, selectAsteroid(id), simulationData # Null, d),
                     "handleAsteroidSelect")
        /\ pending' = Sent("preview", id)
        /\ UNCHANGED harness

\* AsteroidSelector.tsx 406-417: the continuation of handleAsteroidSelect
previewData(id) ==
    [Here EXCEPT !.data = Some(PreviewData(id)), !.progress = Zero,
                 !.playing = FALSE, !.simulating = FALSE]
previewOther == [Here EXCEPT !.simulating = FALSE]
previewFailed == [Here EXCEPT !.mode = "none", !.simulating = FALSE]

PreviewArrives ==
    \E id \in Asteroids :
        /\ pending[<<"preview", id>>] > 0
        /\ pending' = Answered("preview", id)
        /\ \/ \E d \in SetupDeltaMs :
                Becomes(Commit(Here, previewData(id), TRUE, d), "previewData")
           \/ Becomes(Commit(Here, previewOther, FALSE, 0), "previewOther")
           \/ Becomes(Commit(Here, previewFailed, FALSE, 0), "previewFailed")
        /\ UNCHANGED harness

\* AsteroidSelector.tsx 489-497: handleFullSimulation up to the await; the
\* button is disabled while isSimulating (1065)
startFullSimulation == [Here EXCEPT !.simulating = TRUE, !.data = Null, !.mode = "full"]

RunFullSimulation ==
    /\ selectedAsteroidId # Null
    /\ ~isSimulating
    /\ InFlight < MaxInFlight
    /\ \E d \in (IF simulationData # Null THEN SetupDeltaMs ELSE {0}) :
         Becomes(Commit(Here, startFullSimulation, simulationData # Null, d),
                 "handleFullSimulation")
    /\ pending' = Sent("fullStart", selectedAsteroidId[1])
    /\ UNCHANGED harness

\* the report installed without starting the playback
fullData_paused(data) ==
    [Here EXCEPT !.data = Some(data), !.progress = Zero, !.playing = FALSE,
                 !.simulating = FALSE]

\* AsteroidSelector.tsx 505-514: a report (polled or immediate) is installed
fullData(data) ==
    [Here EXCEPT !.data = Some(data), !.progress = Zero, !.playing = TRUE,
                 !.simulating = FALSE]
\* AsteroidSelector.tsx 518-526: any failure of the start request or of the poll
fullFailed ==
    [Here EXCEPT !.mode = "none", !.progress = Zero, !.playing = FALSE,
                 !.simulating = FALSE]

\* the start request answers with a job id: polling begins (499-504)
FullJobStarted ==
    \E id \in Asteroids :
        /\ pending[<<"fullStart", id>>] > 0
        /\ pending' = [pending EXCEPT ![<<"fullStart", id>>] = @ - 1,
                                      ![<<"fullPoll", id>>] = @ + 1]
        /\ Becomes(Here, "jobStarted")
        /\ UNCHANGED harness

FullArrives ==
    \E kind \in {"fullStart", "fullPoll"}, id \in Asteroids :
        /\ pending[<<kind, id>>] > 0
        /\ pending' = Answered(kind, id)
        /\ \E shape \in FullShapes, d \in SetupDeltaMs :
             Becomes(Commit(Here, fullData(FullData(id, shape)), TRUE, d), "fullData")
        /\ UNCHANGED harness

FullFails ==
    \E kind \in {"fullStart", "fullPoll"}, id \in Asteroids :
        /\ pending[<<kind, id>>] > 0
        /\ pending' = Answered(kind, id)
        /\ Becomes(Commit(Here, fullFailed, FALSE, 0), "fullFailed")
        /\ UNCHANGED harness

Next ==
    \/ Frame
    \/ SliderChange
    \/ SliderPointerDown
    \/ Restart
    \/ PlayPause
    \/ Exit
    \/ Deselect
    \/ Select
    \/ PreviewArrives
    \/ RunFullSimulation
    \/ FullJobStarted
    \/ FullArrives
    \/ FullFails

Spec == Init /\ [][Next]_vars

-----------------------------------------------------------------------------
(* buildTimeline on its own: any trajectory of the input set is built once *)

InitBuild ==
    /\ tlPoints \in Trajectories
    /\ tlBuilt = Null
    /\ NoCalls
    /\ NotScaled
    /\ NotAnalyzed
    /\ NotRebuilt
    /\ NotPolled
    /\ pending = [q \in RequestKinds \X Asteroids |-> 0]
    /\ Is(Constructed, "none")

Build ==
    /\ tlBuilt = Null
    /\ tlBuilt' = Some(buildTimeline(tlPoints))
    /\ lastOp' = [op |-> "buildTimeline", deltaMs |-> 0]
    /\ UNCHANGED <<tlPoints, tlTarget, tlLast, tlFirst, scaleInput, scaleOutput,
                   orbitPoints, orbitMeta, orbitResult, earthOrbitMeta, earthOrbitLine,
                   poll, app, pending>>

NextBuild == Build

SpecBuild == InitBuild /\ [][NextBuild]_vars

-----------------------------------------------------------------------------
(* sampleTimeline on its own: a timeline is built, then sampled again and again *)

InitSample ==
    /\ tlPoints \in SampleTrajectories
    /\ tlBuilt = Null
    /\ NoCalls
    /\ NotScaled
    /\ NotAnalyzed
    /\ NotRebuilt
    /\ NotPolled
    /\ pending = [q \in RequestKinds \X Asteroids |-> 0]
    /\ Is(Constructed, "none")

\* the call sampleTimeline(timeline, progress, target) returned rs: a sample's
\* position is the target vector, which the call has written (Scene.tsx 190-192)
Returned(progress, rs) ==
    /\ tlLast' = Some([progress |-> progress, result |-> rs,
                       previous |-> IF tlLast = Null THEN Null
                                    ELSE Some(tlLast[1].progress)])
    /\ tlFirst' = IF tlFirst = Null
                  THEN Some([progress |-> progress, result |-> rs])
                  ELSE tlFirst
    /\ tlTarget' = IF rs = Null THEN tlTarget ELSE rs[1].position

SampleCall ==
    \E progress \in SampleProgress :
        /\ tlBuilt # Null
        /\ Returned(progress, sampleTimeline(tlBuilt[1], progress))
        /\ lastOp' = [op |-> "sampleTimeline", deltaMs |-> 0]
        /\ UNCHANGED <<tlPoints, tlBuilt, scaleInput, scaleOutput,
                       orbitPoints, orbitMeta, orbitResult, earthOrbitMeta, earthOrbitLine,
                   poll, app, pending>>

NextSample ==
    \/ Build
    \/ SampleCall

SpecSample == InitSample /\ [][NextSample]_vars

-----------------------------------------------------------------------------
(* toScaledVector on its own: one vector of the input set is converted *)

\* components below, at, just above and above the threshold, of either sign
ScaleComponents ==
    {0, 400000000, -400000000, 500000000, -500000000,
     500000001, -500000001, 600000000, -600000000}

InitScale ==
    /\ tlPoints = <<>>
    /\ tlBuilt = Null
    /\ NoCalls
    /\ scaleInput \in ScaleComponents \X ScaleComponents \X ScaleComponents
    /\ scaleOutput = Null
    /\ NotAnalyzed
    /\ NotRebuilt
    /\ NotPolled
    /\ pending = [q \in RequestKinds \X Asteroids |-> 0]
    /\ Is(Constructed, "none")

ScaleCall ==
    /\ scaleOutput = Null
    /\ scaleOutput' = Some(toScaledVector(scaleInput))
    /\ lastOp' = [op |-> "toScaledVector", deltaMs |-> 0]
    /\ UNCHANGED <<tlPoints, tlBuilt, tlTarget, tlLast, tlFirst, scaleInput,
                   orbitPoints, orbitMeta, orbitResult, earthOrbitMeta, earthOrbitLine,
                   poll, app, pending>>

NextScale == ScaleCall

SpecScale == InitScale /\ [][NextScale]_vars

-----------------------------------------------------------------------------
(* orbitDiagnostics.ts: analyzeOrbit on its own *)

AU_KM == Rat(1495978707, 10)

\* the numbers a division can produce besides the rationals
Infinity == <<1, 0>>
NegInfinity == <<-1, 0>>
NaN == <<0, 0>>

\* a / b on finite numbers: x / 0 is an infinity with the sign of x, 0 / 0 is NaN
JsDiv(a, b) ==
    IF b[1] # 0 THEN RDiv(a, b)
    ELSE IF a[1] > 0 THEN Infinity
    ELSE IF a[1] < 0 THEN NegInfinity
    ELSE NaN

\* x * 100: an infinity and NaN stay what they are
Times100(x) == IF x[2] # 0 THEN RMul(x, Int2Rat(100)) ELSE x

\* p.length() of a vector whose length is an integer
VectorLength(p) ==
    CHOOSE r \in 0..(Abs(p[1]) + Abs(p[2]) + Abs(p[3])) :
        r * r = p[1] * p[1] + p[2] * p[2] + p[3] * p[3]

\* scene units / SCALE_FACTOR / AU_KM
RadiusAU(r) == RDiv(RDiv(Int2Rat(r), SCALE_FACTOR), AU_KM)

DerivedOrbit(q_au, Q_au) ==
    [a_au |-> RDiv(RAdd(q_au, Q_au), Int2Rat(2)),
     e |-> RDiv(RSub(Q_au, q_au), RAdd(Q_au, q_au)),
     q_au |-> q_au,
     Q_au |-> Q_au]

OrbitDeltas(derived, meta) ==
    [da |-> RSub(derived.a_au, meta.a_au),
     de |-> RSub(derived.e, meta.e),
     dq |-> RSub(derived.q_au, meta.q_au),
     dQ |-> RSub(derived.Q_au, meta.Q_au)]

OrbitPercent(deltas, meta) ==
    [a_pct |-> Times100(JsDiv(deltas.da, meta.a_au)),
     e_pct |-> IF meta.e # Zero THEN Times100(JsDiv(deltas.de, meta.e)) ELSE Zero,
     q_pct |-> Times100(JsDiv(deltas.dq, meta.q_au)),
     Q_pct |-> Times100(JsDiv(deltas.dQ, meta.Q_au))]

OrbitDiagnosticsResult(derived, deltas, percent, count) ==
    Some([derived |-> derived, deltas |-> deltas, percent |-> percent,
          sampleCount |-> count, rMinAU |-> derived.q_au, rMaxAU |-> derived.Q_au])

Compared(derived, deltas, meta, count) ==
    OrbitDiagnosticsResult(derived, deltas, OrbitPercent(deltas, meta), count)

Analyzed(derived, meta, count) ==
    IF meta = Null
    THEN OrbitDiagnosticsResult(derived,
             [da |-> Zero, de |-> Zero, dq |-> Zero, dQ |-> Zero],
             [a_pct |-> Zero, e_pct |-> Zero, q_pct |-> Zero, Q_pct |-> Zero], count)
    ELSE Compared(derived, OrbitDeltas(derived, meta[1]), meta[1], count)

Radii(points) == {VectorLength(points[i]) : i \in 1..Len(points)}

\* null, or the diagnostics of the points against the metadata
analyzeOrbit(points, meta) ==
    IF Len(points) < 4 THEN Null
    ELSE Analyzed(DerivedOrbit(RadiusAU(MinOf(Radii(points))),
                               RadiusAU(MaxOf(Radii(points)))),
                  meta, Len(points))

MaxOrbitPoints == 4
OrbitVectors == {<<1, 0, 0>>, <<0, -2, 0>>}
OrbitPointLists == UNION {[1..n -> OrbitVectors] : n \in 0..MaxOrbitPoints}
\* reference lengths in AU: none, and the AU of one scene unit
MetaLengths == {Zero, Rat(1496000, 1495978707)}
MetaEccentricities == {Zero, Rat(1, 2)}
OrbitMetas ==
    {Null} \cup {Some(m) : m \in [a_au : MetaLengths, e : MetaEccentricities,
                                  q_au : MetaLengths, Q_au : MetaLengths]}

InitAnalyze ==
    /\ tlPoints = <<>>
    /\ tlBuilt = Null
    /\ NoCalls
    /\ NotScaled
    /\ orbitPoints \in OrbitPointLists
    /\ orbitMeta \in OrbitMetas
    /\ orbitResult = Null
    /\ NotRebuilt
    /\ NotPolled
    /\ pending = [q \in RequestKinds \X Asteroids |-> 0]
    /\ Is(Constructed, "none")

AnalyzeCall ==
    /\ orbitResult = Null
    /\ orbitResult' = Some(analyzeOrbit(orbitPoints, orbitMeta))
    /\ lastOp' = [op |-> "analyzeOrbit", deltaMs |-> 0]
    /\ UNCHANGED <<tlPoints, tlBuilt, tlTarget, tlLast, tlFirst, scaleInput,
                   scaleOutput, orbitPoints, orbitMeta, earthOrbitMeta, earthOrbitLine,
                   poll, app, pending>>

NextAnalyze == AnalyzeCall

SpecAnalyze == InitAnalyze /\ [][NextAnalyze]_vars

-----------------------------------------------------------------------------
(* Scene.tsx: rebuildEarthOrbitFromMeta on its own *)

\* meta.a_au ?? 1.0, meta.e ?? 0.0167
OrDefault(v, default) == IF v = Null THEN default ELSE v[1]

\* r = a (1 - e*e) / (1 + e * Math.cos(nu)) of sample 0, where nu = 0 and the
\* cosine is 1.  Lengths are kept in units of the 149 597 870 700 m of a_m.
FirstRadius(a, e) ==
    JsDiv(RMul(a, RSub(One, RMul(e, e))), RAdd(One, RMul(e, One)))

\* false without metadata; else the line is built and true returned.  Of the
\* line the first point is kept: {x: r * cos(0), y: r * sin(0), z: 0}.
rebuildEarthOrbitFromMeta(meta) ==
    IF meta = Null THEN [rebuilt |-> FALSE, first |-> Null]
    ELSE [rebuilt |-> TRUE,
          first |-> Some(<<FirstRadius(OrDefault(meta[1].a_au, One),
                                       OrDefault(meta[1].e, Rat(167, 10000))),
                           Zero, Zero>>)]

\* semi-major axes and eccentricities a report can carry: absent, closed
\* orbits, the parabola e = 1 and hyperbolas
EarthOrbitAxes ==
    {Null, Some(Rat(1, 2)), Some(One), Some(Rat(3, 2)), Some(Int2Rat(2)),
     Some(Rat(5, 2)), Some(Int2Rat(3))}
EarthOrbitEccentricities ==
    {Null, Some(Zero), Some(Rat(167, 10000)), Some(Rat(1, 2)), Some(Rat(9, 10)),
     Some(One), Some(Rat(3, 2)), Some(Int2Rat(2)), Some(Int2Rat(10))}
EarthOrbitMetas ==
    {Null} \cup {Some(m) : m \in [a_au : EarthOrbitAxes, e : EarthOrbitEccentricities]}

InitRebuild ==
    /\ tlPoints = <<>>
    /\ tlBuilt = Null
    /\ NoCalls
    /\ NotScaled
    /\ NotAnalyzed
    /\ earthOrbitMeta \in EarthOrbitMetas
    /\ earthOrbitLine = Null
    /\ NotPolled
    /\ pending = [q \in RequestKinds \X Asteroids |-> 0]
    /\ Is(Constructed, "none")

RebuildCall ==
    /\ earthOrbitLine = Null
    /\ earthOrbitLine' = Some(rebuildEarthOrbitFromMeta(earthOrbitMeta))
    /\ lastOp' = [op |-> "rebuildEarthOrbitFromMeta", deltaMs |-> 0]
    /\ UNCHANGED <<tlPoints, tlBuilt, tlTarget, tlLast, tlFirst, scaleInput,
                   scaleOutput, orbitPoints, orbitMeta, orbitResult,
                   earthOrbitMeta, poll, app, pending>>

NextRebuild == RebuildCall

SpecRebuild == InitRebuild /\ [][NextRebuild]_vars

-----------------------------------------------------------------------------
(* api.ts: pollSimulationReport on its own.  Times are in milliseconds. *)

\* the options of the call, what a fetch can answer, how long a fetch can take
\* and how much later than asked a timer can fire
PollIntervals == {1000, 2000}
PollTimeouts == {4000, 5000}
ResponseKinds == {"202", "ok", "notOk"}
FetchDurations == {0, 1000}
TimerLags == {0, 1000}

\* the call has sent its first request at time 0
InitPoll ==
    /\ tlPoints = <<>>
    /\ tlBuilt = Null
    /\ NoCalls
    /\ NotScaled
    /\ NotAnalyzed
    /\ NotRebuilt
    /\ \E interval \in PollIntervals, timeout \in PollTimeouts :
          poll = Some([interval |-> interval, timeout |-> timeout, pc |-> "fetching",
                       elapsed |-> 0, requests |-> 1, status |-> "none",
                       outcome |-> "none"])
    /\ pending = [q \in RequestKinds \X Asteroids |-> 0]
    /\ Is(Constructed, "none")

\* api.ts 102-147: what the loop does with a response
Responded(p, status) ==
    IF status = "202" THEN [p EXCEPT !.status = status, !.pc = "waiting"]
    ELSE IF status = "ok"
    THEN [p EXCEPT !.status = status, !.pc = "done", !.outcome = "data"]
    ELSE [p EXCEPT !.status = status, !.pc = "done", !.outcome = "failed"]

\* Date.now() - start > timeout, taking the time at or after the timeout as past it
TimedOut_atTimeout(p) == p.elapsed >= p.timeout

\* api.ts 149: Date.now() - start > timeout
TimedOut(p) == p.elapsed > p.timeout

\* api.ts 149-151, and the next turn of the loop (99-100)
Waited(p) ==
    IF TimedOut(p) THEN [p EXCEPT !.pc = "done", !.outcome = "timeout"]
    ELSE [p EXCEPT !.pc = "fetching", !.requests = @ + 1]

PollStep(p) ==
    /\ poll' = Some(p)
    /\ lastOp' = [op |-> "pollSimulationReport", deltaMs |-> 0]
    /\ UNCHANGED <<tlPoints, tlBuilt, tlTarget, tlLast, tlFirst, scaleInput,
                   scaleOutput, orbitPoints, orbitMeta, orbitResult,
                   earthOrbitMeta, earthOrbitLine, app, pending>>

\* the awaited fetch returns after `took` milliseconds
FetchReturns ==
    \E status \in ResponseKinds, took \in FetchDurations :
        /\ poll # Null
        /\ poll[1].pc = "fetching"
        /\ PollStep(Responded([poll[1] EXCEPT !.elapsed = @ + took], status))

\* the awaited timer fires `lag` milliseconds after the interval
TimerFires ==
    \E lag \in TimerLags :
        /\ poll # Null
        /\ poll[1].pc = "waiting"
        /\ PollStep(Waited([poll[1] EXCEPT !.elapsed = @ + poll[1].interval + lag]))

NextPoll ==
    \/ FetchReturns
    \/ TimerFires

\* every fetch returns and every timer fires
SpecPoll == InitPoll /\ [][NextPoll]_vars /\ WF_vars(FetchReturns) /\ WF_vars(TimerFires)

-----------------------------------------------------------------------------
(* Properties of the playback clock *)

TimelineLoaded == asteroidAnimationRef # Null \/ earthAnimationRef # Null

\* the step is a frame called back with deltaMs > 0 that starts Playing
PlayingTick == lastOp'.op = "animate" /\ lastOp'.deltaMs > 0 /\ isPlaybackPlaying

\* the advance of that frame brings progress to 1 or beyond
ReachesEnd ==
    RLe(One, RAdd(playbackProgress, Rat(lastOp'.deltaMs, playbackDurationRef)))

\* C1: when the clock is Playing and a frame's advance brings progress to 1 or
\* beyond, progress is 0 after that frame and the clock is still Playing; no
\* frame changes isPlaying; and in a behaviour that ends in frames only, with
\* frames of positive delta again and again, a Playing clock is back at
\* progress 0 again and again.
C1_LoopingWraps ==
    /\ [][(PlayingTick /\ ReachesEnd) =>
             /\ playbackProgress' = Zero
             /\ playbackProgressRef' = Zero
             /\ isPlaybackPlaying'
             /\ isPlaybackPlayingRef']_vars
    /\ [][lastOp'.op = "animate" =>
             /\ isPlaybackPlaying' = isPlaybackPlaying
             /\ isPlaybackPlayingRef' = isPlaybackPlayingRef]_vars
    /\ (<>[](lastOp.op = "animate") /\ []<><<lastOp'.deltaMs > 0>>_vars)
         => []<>(~isPlaybackPlaying \/ playbackProgress = Zero)

\* a frame of positive delta has just rewound a playing clock over loaded timelines
C1_Witness ==
    /\ lastOp.op = "animate"
    /\ lastOp.deltaMs > 0
    /\ playbackProgress = Zero
    /\ isPlaybackPlaying
    /\ TimelineLoaded

Installed == lastOp.op \in {"previewData", "fullData"}

C3_PlayingOnlyWithTimeline ==
    isPlaybackPlaying =>
        \/ asteroidAnimationRef # Null /\ Len(asteroidAnimationRef[1].timeline) > 0
        \/ earthAnimationRef # Null /\ Len(earthAnimationRef[1].timeline) > 0

SampledAt(mesh, timeline, p) ==
    /\ mesh # Null
    /\ mesh[1].position.kind = "sample"
    /\ mesh[1].position.progress = Some(p)
    /\ mesh[1].position.value = sampleTimeline(timeline, p)[1].position

\* C4: whenever both timelines are loaded, the asteroid and the Earth are where
\* their timelines are sampled at one and the same progress value, the shared
\* progress; no two meshes hold samples of different progress values.
C4_LockStep ==
    /\ (asteroidAnimationRef # Null /\ earthAnimationRef # Null)
         => /\ playbackProgressRef = playbackProgress
            /\ SampledAt(asteroidMeshRef, asteroidAnimationRef[1].timeline,
                         playbackProgress)
            /\ SampledAt(earthMeshRef, earthAnimationRef[1].timeline, playbackProgress)
    /\ (/\ asteroidMeshRef # Null
        /\ earthMeshRef # Null
        /\ asteroidMeshRef[1].position.kind = "sample"
        /\ earthMeshRef[1].position.kind = "sample")
         => asteroidMeshRef[1].position.progress = earthMeshRef[1].position.progress

\* the frame that rewound the clock has put both bodies at progress 0
C4_Witness ==
    /\ lastOp.op = "animate"
    /\ lastOp.deltaMs > 0
    /\ isPlaybackPlaying
    /\ asteroidMeshRef # Null
    /\ earthMeshRef # Null
    /\ asteroidMeshRef[1].position.kind = "sample"
    /\ earthMeshRef[1].position.kind = "sample"
    /\ asteroidMeshRef[1].position.progress = Some(Zero)
    /\ earthMeshRef[1].position.progress = Some(Zero)

\* C5: every frame, the one run inside scene setup included, starts in a state
\* where each timeline it reads is built from the simulation the store holds and
\* its progress and isPlaying are the store's.
C5_LoadAtomicForFrames ==
    frameView # Null =>
        /\ frameView[1].asteroidCurrent
        /\ frameView[1].earthCurrent
        /\ frameView[1].synced

\* a report has just been installed, and the frame run while the scene was set
\* up for it read no timeline
C5_Witness ==
    /\ lastOp.op = "fullData"
    /\ frameView # Null
    /\ ~frameView[1].loaded
    /\ asteroidAnimationRef # Null
    /\ earthAnimationRef # Null

\* C6: while the store holds no simulation, both timelines are absent,
\* progress = 0, isPlaying = false and the playback duration is 15000 ms.
C6_ClearResets ==
    simulationData = Null =>
        /\ asteroidAnimationRef = Null
        /\ earthAnimationRef = Null
        /\ playbackProgress = Zero
        /\ playbackProgressRef = Zero
        /\ ~isPlaybackPlaying
        /\ ~isPlaybackPlayingRef
        /\ playbackDurationRef = ASTEROID_ANIMATION_DURATION_MS

\* EXIT has just cleared the simulation
C6_Witness ==
    /\ lastOp.op = "exit"
    /\ simulationData = Null
    /\ simulationMode = "none"
    /\ frameView # Null

\* C7: the shared progress and the render loop's copy of it lie in [0, 1].
C7_ProgressInUnitInterval ==
    /\ RLe(Zero, playbackProgress) /\ RLe(playbackProgress, One)
    /\ RLe(Zero, playbackProgressRef) /\ RLe(playbackProgressRef, One)

\* the slider's change handler has just stored a value clamped to 1
C7_Witness ==
    /\ lastOp.op = "handleChange"
    /\ playbackProgress = One

\* C8 as stated: after a seek through the slider's change handler that changes
\* progress while isPlaying is true, isPlaying is false.
C8_SeekPauses ==
    [][(lastOp'.op = "handleChange" /\ isPlaybackPlaying
            /\ playbackProgress' # playbackProgress)
          => ~isPlaybackPlaying']_vars

TimestampsOf(anim) ==
    [i \in 1..Len(anim[1].timeline) |-> anim[1].timeline[i].timestamp]

\* both timelines of the scenario are loaded and the shared progress is 0.5
Scenario ==
    /\ asteroidAnimationRef # Null
    /\ earthAnimationRef # Null
    /\ TimestampsOf(asteroidAnimationRef) = <<0, 100, 200>>
    /\ TimestampsOf(earthAnimationRef) = <<50, 150, 250>>
    /\ playbackProgress = Rat(1, 2)

SampledTimestamp(anim) ==
    sampleTimeline(anim[1].timeline, playbackProgress)[1].timestamp

PositionOf(mesh) == IF mesh = Null THEN Null ELSE Some(mesh[1].position)

\* the step is a frame or a seek through the slider
TickOrSeek == lastOp'.op \in {"animate", "handleChange"}

\* the step leaves where it is each body whose timeline is absent
AbsentBodiesStay ==
    /\ asteroidAnimationRef = Null =>
          PositionOf(asteroidMeshRef') = PositionOf(asteroidMeshRef)
    /\ earthAnimationRef = Null =>
          PositionOf(earthMeshRef') = PositionOf(earthMeshRef)

\* buildTimeline of zero samples is the empty timeline, and sampling it gives
\* null for every progress
EmptyIsEmpty ==
    /\ buildTimeline(<<>>) = <<>>
    /\ \A p \in SampleProgress : sampleTimeline(buildTimeline(<<>>), p) = Null

LoadedTimestamps ==
    (IF asteroidAnimationRef # Null
     THEN {TimestampsOf(asteroidAnimationRef)[i] :
               i \in 1..Len(asteroidAnimationRef[1].timeline)}
     ELSE {})
    \cup
    (IF earthAnimationRef # Null
     THEN {TimestampsOf(earthAnimationRef)[i] :
               i \in 1..Len(earthAnimationRef[1].timeline)}
     ELSE {})

\* the first and the last timestamps of the loaded timelines
LoadedFirsts ==
    (IF asteroidAnimationRef # Null THEN {TimestampsOf(asteroidAnimationRef)[1]} ELSE {})
    \cup
    (IF earthAnimationRef # Null THEN {TimestampsOf(earthAnimationRef)[1]} ELSE {})
LoadedLasts ==
    (IF asteroidAnimationRef # Null
     THEN {TimestampsOf(asteroidAnimationRef)[Len(asteroidAnimationRef[1].timeline)]}
     ELSE {})
    \cup
    (IF earthAnimationRef # Null
     THEN {TimestampsOf(earthAnimationRef)[Len(earthAnimationRef[1].timeline)]}
     ELSE {})

\* every loaded timeline has its timestamps in non-decreasing index order
LoadedInOrder ==
    /\ asteroidAnimationRef # Null =>
          \A i \in 1..(Len(asteroidAnimationRef[1].timeline) - 1) :
              TimestampsOf(asteroidAnimationRef)[i] <= TimestampsOf(asteroidAnimationRef)[i + 1]
    /\ earthAnimationRef # Null =>
          \A i \in 1..(Len(earthAnimationRef[1].timeline) - 1) :
              TimestampsOf(earthAnimationRef)[i] <= TimestampsOf(earthAnimationRef)[i + 1]

IdleClockAdvanced ==
    RAdd(idleSimulationTimeRef,
         RMul(Rat(lastOp'.deltaMs, 1000), Int2Rat(86400)))

\* the tick has advanced the idle clock and put the Earth at its Kepler position
IdleStep ==
    /\ idleSimulationTimeRef' = IdleClockAdvanced
    /\ PositionOf(earthMeshRef') = Some(Position("kepler", <<IdleClockAdvanced>>, Null))

\* C23 as stated: in every tick where no timeline is loaded, the idle clock
\* advances by deltaMs / 1000 * 86400 seconds and the Earth is placed at the
\* Kepler position of that idle clock, whatever progress and isPlaying are; in
\* every tick where a timeline is loaded the idle clock does not change.
C23_IdleFallback ==
    [][lastOp'.op = "animate" =>
          IF TimelineLoaded THEN idleSimulationTimeRef' = idleSimulationTimeRef
          ELSE IdleStep]_vars

\* C23: in every tick where no timeline is loaded and the idle clock is not
\* negative (the preview path sets it to -1), the idle clock advances by
\* deltaMs / 1000 * 86400 seconds and the Earth is placed at the Kepler position
\* of that idle clock, whatever progress and isPlaying are; in every other tick
\* the idle clock does not change.
C23_IdleFallbackUnlessDisabled ==
    [][lastOp'.op = "animate" =>
          IF TimelineLoaded \/ RLt(idleSimulationTimeRef, Zero)
          THEN idleSimulationTimeRef' = idleSimulationTimeRef
          ELSE IdleStep]_vars

\* a tick of 7.5 s without a timeline has advanced the idle clock to 7.5 days
\* and moved the Earth there
C23_Witness ==
    /\ lastOp.op = "animate"
    /\ lastOp.deltaMs = 7500
    /\ ~TimelineLoaded
    /\ idleSimulationTimeRef = Int2Rat(648000)
    /\ PositionOf(earthMeshRef) = Some(Position("kepler", <<Int2Rat(648000)>>, Null))

\* the step belongs to a load or a clear of the simulation: a selection or
\* deselection, the start of a full simulation, the installation of a preview or
\* of a report, the failure of a full simulation, or an exit
LoadOrClear ==
    lastOp'.op \in {"handleAsteroidSelect", "deselect", "handleFullSimulation",
                    "previewData", "fullData", "fullFailed", "exit"}

\* the step is one of those that may write progress: a tick while playing, a
\* seek, a restart, a play at the end, or a load or clear of the simulation
ProgressWriter ==
    \/ lastOp'.op = "animate" /\ isPlaybackPlaying
    \/ lastOp'.op \in {"handleChange", "handleRestart"}
    \/ /\ lastOp'.op = "handlePlayPause"
       /\ ~isPlaybackPlaying
       /\ RLe(Rat(999, 1000), playbackProgress)
    \/ LoadOrClear

\* C24: a tick while the clock is not playing leaves progress and isPlaying
\* unchanged, whatever its deltaMs; progress changes only through a tick while
\* playing, a seek, a restart, a play at the end, or a load or clear of the
\* simulation.
C24_OnlyWritersMoveProgress ==
    /\ [][(lastOp'.op = "animate" /\ ~isPlaybackPlaying)
            => /\ playbackProgress' = playbackProgress
               /\ isPlaybackPlaying' = isPlaybackPlaying]_vars
    /\ [][playbackProgress' # playbackProgress => ProgressWriter]_vars

\* a tick of 7.5 s has run while a loaded simulation was paused half way
C24_Witness ==
    /\ lastOp.op = "animate"
    /\ lastOp.deltaMs = 7500
    /\ TimelineLoaded
    /\ ~isPlaybackPlaying
    /\ playbackProgress = Rat(1, 2)

\* the step has installed the answer to a request of the given mode, and that
\* mode is the current one and the answer's asteroid the selected one
InstalledAsRequested(op, mode) ==
    lastOp'.op = op =>
        /\ simulationMode' = mode
        /\ simulationData' # Null
        /\ selectedAsteroidId' = Some(simulationData'[1].asteroid_id)

\* C25: under any interleaving of selections, full-simulation requests and
\* their responses, the data a response installs was requested for the asteroid
\* that is selected and in the simulation mode that is current when it is
\* installed.
C25_NoStaleResponse ==
    [][/\ InstalledAsRequested("previewData", "preview")
       /\ InstalledAsRequested("fullData", "full")]_vars

\* where a playing tick of lastOp'.deltaMs milliseconds takes the store's progress
AdvancedFromStore ==
    RAdd(playbackProgress, Rat(lastOp'.deltaMs, ASTEROID_ANIMATION_DURATION_MS))

\* C26: whenever a tick runs, its copies of progress and isPlaying are the
\* store's, so the progress it writes is advanced from the store's value (or
\* rewound to 0 at the end): a value written by a seek or a reset is the base of
\* the next tick.
C26_TickStartsFromStore ==
    [][lastOp'.op = "animate" =>
          /\ playbackProgressRef = playbackProgress
          /\ isPlaybackPlayingRef = isPlaybackPlaying
          /\ frameView'[1].synced
          /\ \/ playbackProgress' = playbackProgress
             \/ playbackProgress' = AdvancedFromStore
             \/ playbackProgress' = Zero /\ RLe(One, AdvancedFromStore)]_vars

\* a tick has run after a seek to 0.999 while playing, and has left the sought
\* value in the store and in its own copy
C26_Witness ==
    /\ lastOp.op = "animate"
    /\ isPlaybackPlaying
    /\ isPlaybackPlayingRef
    /\ playbackProgress = Rat(999, 1000)
    /\ playbackProgressRef = Rat(999, 1000)

\* C27: isSimulating is true in every state in which a preview or full
\* simulation request is in flight and false in every state in which none is,
\* also when a second selection is made before the first preview has answered.
C27_SimulatingWhileInFlight ==
    isSimulating <=> InFlight > 0

\* C28: when a full simulation has failed (its start request or its poll), the
\* store holds no simulation data and no simulation mode, progress is 0 and
\* isPlaying and isSimulating are false.
C28_FailureClears ==
    lastOp.op = "fullFailed" =>
        /\ simulationData = Null
        /\ simulationMode = "none"
        /\ playbackProgress = Zero
        /\ ~isPlaybackPlaying
        /\ ~isSimulating

\* C30: while the simulation mode is preview and the store holds data, no
\* asteroid or Earth timeline is loaded, progress = 0 and isPlaying = false,
\* whatever ticks occur.
C30_PreviewIsIdle ==
    (simulationMode = "preview" /\ simulationData # Null) =>
        /\ asteroidAnimationRef = Null
        /\ earthAnimationRef = Null
        /\ playbackProgress = Zero
        /\ ~isPlaybackPlaying

\* a tick of 7.5 s has run while a preview is shown
C30_Witness ==
    /\ simulationMode = "preview"
    /\ simulationData = Some(PreviewData("a1"))
    /\ lastOp.op = "animate"
    /\ lastOp.deltaMs = 7500
    /\ playbackProgress = Zero

-----------------------------------------------------------------------------
(* Properties of buildTimeline *)

Built == tlBuilt[1]
Count == Len(tlPoints)
Effective(i) == EffectiveTimestamp(tlPoints, i)

DistinctTimestamps ==
    \A i, j \in 1..Count : i # j => Effective(i) # Effective(j)
NonDecreasingTimestamps ==
    \A i \in 1..(Count - 1) : Effective(i) <= Effective(i + 1)
NonDecreasingT ==
    \A i \in 1..(Len(Built) - 1) : RLe(Built[i].t, Built[i + 1].t)
SpansUnitInterval == Built[1].t = Zero /\ Built[Len(Built)].t = One
SameLengthAndOrder ==
    /\ Len(Built) = Count
    /\ \A i \in 1..Count :
         /\ Built[i].position = toScaledVector(tlPoints[i].position)
         /\ Built[i].timestamp = Effective(i)

\* C9 as stated: for at least 2 samples with distinct timestamps, the t values
\* are non-decreasing in index order, the first is 0 and the last is 1.
C9_DistinctTimestamps ==
    (tlBuilt # Null /\ Count >= 2 /\ DistinctTimestamps)
        => NonDecreasingT /\ SpansUnitInterval

\* C9: for at least 2 samples whose timestamps are non-decreasing in index
\* order, the t values are non-decreasing in index order, the first is 0 and
\* the last is 1.
C9_OrderedTimestamps ==
    (tlBuilt # Null /\ Count >= 2 /\ NonDecreasingTimestamps)
        => NonDecreasingT /\ SpansUnitInterval

\* a timeline built from 3 samples that all carry the same timestamp
C9_Witness ==
    /\ tlBuilt # Null
    /\ Count = 3
    /\ \A i \in 1..Count : tlPoints[i].timestamp = Some(2)

\* C10 as stated: every non-empty timeline, one built from a single sample
\* included, has first t = 0 and last t = 1, and the length and order of the input.
C10_EveryTimeline ==
    (tlBuilt # Null /\ Count >= 1) => SpansUnitInterval /\ SameLengthAndOrder

\* C10: every timeline has the length and order of the input; one built from
\* at least 2 samples has first t = 0 and last t = 1; one built from a single
\* sample has the single t = 1.
C10_TimelineShape ==
    tlBuilt # Null =>
        /\ SameLengthAndOrder
        /\ Count >= 2 => SpansUnitInterval
        /\ Count = 1 => Built[1].t = One

\* a timeline built from a single sample
C10_Witness == tlBuilt # Null /\ Count = 1 /\ Built[1].t = One

-----------------------------------------------------------------------------
(* Properties of sampleTimeline *)

LastCall == tlLast[1]
ReturnedPosition == LastCall.result[1].position
ReturnedTimestamp == LastCall.result[1].timestamp

\* C11 as stated: for a timeline of at least 2 entries, the call at progress 0
\* returns exactly the first entry's position and the call at progress 1 exactly
\* the last entry's position, also when several trailing entries share t = 1.
C11_EndpointsExact ==
    (tlLast # Null /\ Len(Built) >= 2) =>
        /\ LastCall.progress = Zero =>
              LastCall.result # Null /\ ReturnedPosition = Built[1].position
        /\ LastCall.progress = One =>
              LastCall.result # Null /\ ReturnedPosition = Built[Len(Built)].position

\* C13: for a timeline built from exactly one sample, every call, whatever its
\* progress (below 0, inside [0, 1] or above 1), returns that sample's position
\* and timestamp.
C13_SingleSample ==
    (tlLast # Null /\ Count = 1) =>
        /\ LastCall.result # Null
        /\ ReturnedPosition = toScaledVector(tlPoints[1].position)
        /\ ReturnedTimestamp = Int2Rat(Effective(1))

\* a single-sample timeline has been sampled below 0 and then above 1
C13_Witness ==
    /\ tlLast # Null
    /\ Count = 1
    /\ LastCall.progress = Rat(3, 2)
    /\ LastCall.previous = Some(Rat(-1, 2))
    /\ ReturnedPosition = Built[1].position

FirstCall == tlFirst[1]

ConvertedAsMeters(i) ==
    \A k \in 1..3 :
        RMul(Built[i].position[k], Int2Rat(149600000)) = Int2Rat(tlPoints[i].position[k])

\* C18: all the samples of a trajectory handed to buildTimeline are converted
\* with the same meters-or-kilometers decision: no two entries of the timeline
\* are scaled by different factors.
C18_OneDecisionPerTrajectory ==
    tlBuilt # Null =>
        \A i, j \in 1..Count : ConvertedAsMeters(i) = ConvertedAsMeters(j)

\* p limited to [0, 1]
Limited(p) == IF RLt(p, Zero) THEN Zero ELSE IF RLt(One, p) THEN One ELSE p

\* lo is the smallest index of the built timeline whose t is at least c
SmallestAtLeast(lo, c) ==
    /\ RLe(c, Built[lo].t)
    /\ \A k \in 1..(lo - 1) : RLt(Built[k].t, c)

\* how far c lies from a.t towards b.t
Fraction(a, b, c) ==
    IF a.t = b.t THEN Zero ELSE RDiv(RSub(c, a.t), RSub(b.t, a.t))

\* v is at fraction f of the way from x to y
AtFraction(v, x, y, f) == v = RAdd(x, RMul(RSub(y, x), f))

Between(v, x, y) == RLe(RMin(x, y), v) /\ RLe(v, RMax(x, y))

\* the returned sample is the linear interpolation between a and b at fraction f
InterpolatedBetween(a, b, f) ==
    /\ \A i \in 1..3 : AtFraction(ReturnedPosition[i], a.position[i], b.position[i], f)
    /\ AtFraction(ReturnedTimestamp, Int2Rat(a.timestamp), Int2Rat(b.timestamp), f)
    /\ Between(ReturnedTimestamp, Int2Rat(a.timestamp), Int2Rat(b.timestamp))

ReferenceSample(lo, c) ==
    /\ SmallestAtLeast(lo, c)
    /\ InterpolatedBetween(Built[IF lo = 1 THEN 1 ELSE lo - 1], Built[lo],
                           Fraction(Built[IF lo = 1 THEN 1 ELSE lo - 1], Built[lo], c))

\* C22: for a timeline with non-decreasing t and any progress p, the call returns
\* the linear interpolation, of each position component and of the timestamp,
\* between the entries lo - 1 and lo at c = p limited to [0, 1], where lo is the
\* smallest index with t[lo] >= c; the returned timestamp lies between the
\* timestamps of the two entries; a call with p < 0 returns what the call with
\* p = 0 returned and a call with p > 1 what the call with p = 1 returned.
C22_ReferenceInterpolation ==
    (tlLast # Null /\ Len(Built) > 0 /\ NonDecreasingT) =>
        /\ LastCall.result # Null
        /\ \E lo \in 1..Len(Built) : ReferenceSample(lo, Limited(LastCall.progress))
        /\ (RLt(LastCall.progress, Zero) /\ FirstCall.progress = Zero)
              => LastCall.result = FirstCall.result
        /\ (RLt(One, LastCall.progress) /\ FirstCall.progress = One)
              => LastCall.result = FirstCall.result

\* a timeline with t = 0, 1/2, 1 whose first two positions differ has been
\* sampled at progress 1/2 and then below 0
C22_Witness ==
    /\ tlLast # Null
    /\ Len(Built) = 3
    /\ Built[2].t = Rat(1, 2)
    /\ Built[1].position # Built[2].position
    /\ LastCall.progress = Rat(-1, 2)
    /\ LastCall.previous = Some(Rat(1, 2))
    /\ FirstCall.progress = Zero
    /\ ReturnedPosition = Built[1].position

-----------------------------------------------------------------------------
(* toScaledVector *)

Scaled == scaleOutput[1]

LargestMagnitude ==
    MaxOf({Abs(scaleInput[i]) : i \in 1..3})

\* C17: the vector toScaledVector returns is the input divided by 1000 and by
\* the 149600 km of a display unit when the largest magnitude of its components
\* is above 5 * 10^8, and the input divided by 149600 alone otherwise, whatever
\* the signs of the components.
C17_MetersAboveThreshold ==
    scaleOutput # Null =>
        \A i \in 1..3 :
            IF LargestMagnitude > 500000000
            THEN RMul(Scaled[i], Int2Rat(149600000)) = Int2Rat(scaleInput[i])
            ELSE RMul(Scaled[i], Int2Rat(149600)) = Int2Rat(scaleInput[i])

\* a vector whose largest magnitude is exactly 5 * 10^8, on a negative
\* component, has been converted as kilometers
C17_Witness ==
    /\ scaleOutput # Null
    /\ scaleInput = <<400000000, -500000000, 0>>
    /\ Scaled[2] = Rat(-500000000, 149600)

-----------------------------------------------------------------------------
(* analyzeOrbit *)

Diagnostics == orbitResult[1]
Percent == Diagnostics[1].percent
Reference == orbitMeta[1]

\* C19: analyzeOrbit returns null for fewer than 4 points, and with metadata
\* the percentage error it reports for each of a, e, q and Q is zero when the
\* reference value of that quantity in the metadata is zero.
C19_ZeroReferenceZeroPercent ==
    orbitResult # Null =>
        /\ Len(orbitPoints) < 4 => Diagnostics = Null
        /\ (Diagnostics # Null /\ orbitMeta # Null) =>
              /\ Reference.a_au = Zero => Percent.a_pct = Zero
              /\ Reference.e = Zero => Percent.e_pct = Zero
              /\ Reference.q_au = Zero => Percent.q_pct = Zero
              /\ Reference.Q_au = Zero => Percent.Q_pct = Zero

-----------------------------------------------------------------------------
(* rebuildEarthOrbitFromMeta *)

GivenEccentricity == OrDefault(earthOrbitMeta[1].e, Rat(167, 10000))

-----------------------------------------------------------------------------
(* pollSimulationReport *)

Polling == poll[1]
Polled == poll'[1]

\* the step is the return of a fetch, or the firing of the timer
AnsweredStep == Polling.pc = "fetching" /\ Polled # Polling
TimerStep == Polling.pc = "waiting" /\ Polled # Polling

\* C29: the call ends whenever each fetch returns.  A response that is ok and
\* not 202 ends it with the data, a response that is neither ends it with an
\* error, a 202 is followed by a wait; the first wait that brings the elapsed
\* time past the timeout ends it with the timeout error and every other wait is
\* followed by one more request; once ended, it issues no request.
C29_PollTerminates ==
    /\ <>(Polling.pc = "done")
    /\ [][AnsweredStep =>
            /\ Polled.requests = Polling.requests
            /\ Polled.status = "ok" => Polled.pc = "done" /\ Polled.outcome = "data"
            /\ Polled.status = "notOk" => Polled.pc = "done" /\ Polled.outcome = "failed"
            /\ Polled.status = "202" => Polled.pc = "waiting" /\ Polled.outcome = "none"]_vars
    /\ [][TimerStep =>
            IF Polled.elapsed > Polling.timeout
            THEN /\ Polled.pc = "done" /\ Polled.outcome = "timeout"
                 /\ Polled.requests = Polling.requests
            ELSE /\ Polled.pc = "fetching" /\ Polled.outcome = "none"
                 /\ Polled.requests = Polling.requests + 1]_vars
    /\ [][Polling.pc = "done" => Polled = Polling]_vars

\* the call has ended with the timeout error after three requests answered 202,
\* the wait before the third having ended exactly at the timeout
C29_Witness ==
    /\ poll # Null
    /\ Polling.outcome = "timeout"
    /\ Polling.interval = 2000
    /\ Polling.timeout = 4000
    /\ Polling.requests = 3
    /\ Polling.elapsed = 6000

=============================================================================
